---- MODULE Spec2Model ----
(***************************************************************************)
(* bfc.c: a Brainfuck interpreter.  main reads the program text, creates a *)
(* zeroed circular tape of the program's length (at least 1) and calls     *)
(* exec, which first pairs the brackets (build_jumps) and then runs the    *)
(* dispatch loop.  Indices are 0-based as in the C source: the program,    *)
(* the jump table, the bracket stack and the tape are functions over       *)
(* 0..n-1.  Allocation is taken to succeed.                                *)
(***************************************************************************)
EXTENDS Integers, Sequences, FiniteSets

\* ------------------------------------------------------------------ bounds
\* Longest program text explored by Spec.
MaxLen == 4
\* Longest program text explored by SpecBytes (every input byte value).
MaxByteLen == 3
\* Most bytes the input stream holds before its end.
MaxIn == 2
\* Most bytes written to the output before the exploration is cut.
MaxOut == 2

\* ------------------------------------------------------------ program text
\* The eight instructions and "x", standing for every other character.
Symbols == {"+", "-", ">", "<", ".", ",", "[", "]", "x"}

\* Values of an unsigned char.
Byte == 0..255

\* Bytes the input stream of Spec may deliver.
InputBytes == {0, 1, 65, 255}

\* getchar()'s end-of-file result.
EOF == -1

\* Program texts of length at most n.
Programs(n) == UNION {[0..(k - 1) -> Symbols] : k \in 0..n}

VARIABLES
    code,       \* main: the program text, code[0..code_len-1]
    code_len,   \* main: its length
    tape,       \* tape_t.tape: the cells
    pos,        \* tape_t.pos: the cursor
    len,        \* tape_t.len: the tape length
    jumps,      \* build_jumps: the jump table (calloc'ed: all 0)
    stack,      \* build_jumps: the live part stack[0..sp-1] of the '[' stack
    sp,         \* build_jumps: the stack pointer
    i,          \* build_jumps: the scan index
    ret,        \* build_jumps: <<>> until it returns, then <<0>> or <<-1>>
    ip,         \* exec: the instruction pointer
    consumed,   \* stdin: the bytes getchar() has delivered so far
    eof,        \* stdin: the end of the stream has been reached
    obuf,       \* stdout: bytes written and not yet flushed
    out,        \* stdout: bytes visible on the stream
    stderr,     \* stderr: the messages printed
    exit_code,  \* main: <<>> until main returns, then <<its value>>
    pc,         \* "build", "built", "exec", "done", "aborted", "exit"
    trail,      \* history: the last two dispatches, newest first
    alt         \* the same run under the land-on-the-bracket jump policy

vars == <<code, code_len, tape, pos, len, jumps, stack, sp, i, ret, ip,
          consumed, eof, obuf, out, stderr, exit_code, pc, trail, alt>>

\* ------------------------------------------------------------------ tape
\* A tape of exactly the length asked for, also 0.
TapeLenAsAsked(n) == n

\* tape_init: a requested length of 0 becomes 1.
TapeLen(n) == IF n = 0 THEN 1 ELSE n

\* tape_init: the cells, all zero.
ZeroTape(n) == [k \in 0..(TapeLen(n) - 1) |-> 0]

\* An increment that stops at 255 instead of wrapping.
IncCellSaturating(v) == IF v = 255 THEN 255 ELSE v + 1

\* t->tape[t->pos]++ on an unsigned char.
IncCell(v) == (v + 1) % 256

\* t->tape[t->pos]-- on an unsigned char.
DecCell(v) == (v + 255) % 256

\* A move right whose test is off by one: the cursor reaches len.
MoveRightPastEnd(p, l) == IF p + 1 > l THEN 0 ELSE p + 1

\* A move right that stays on the last cell instead of wrapping.
MoveRightClamped(p, l) == IF p + 1 >= l THEN p ELSE p + 1

\* case '>': wrap to 0 when moving past the end.
MoveRight(p, l) == IF p + 1 >= l THEN 0 ELSE p + 1

\* case '<': wrap to the last cell when moving below 0.
MoveLeft(p, l) == IF p = 0 THEN l - 1 ELSE p - 1

\* A store that keeps seven bits of the byte read.
StoredSevenBits(ch) == IF ch = EOF THEN 0 ELSE ch % 128

\* A store without the EOF test: (unsigned char)EOF is 255.
StoredEofAsByte(ch) == ch % 256

\* The value ',' stores for getchar()'s result ch.
Stored(ch) == IF ch = EOF THEN 0 ELSE ch % 256

\* A '[' with the test inverted: it skips the loop on a non-zero cell.
TakesOpenInverted(v) == v # 0

\* case '[': the test that takes the jump to the matching ']'.
TakesOpen(v) == v = 0

\* A ']' with the test inverted: it jumps back on a zero cell.
TakesCloseInverted(v) == v = 0

\* A ']' that jumps back whatever the cell holds.
TakesCloseAlways(v) == TRUE

\* case ']': the test that takes the jump back to the matching '['.
TakesClose(v) == v # 0

\* --------------------------------------------- the land-on-bracket variant
\* The dispatch loop with one change: a taken jump sets ip to the matched
\* bracket and does not advance past it, so that bracket is dispatched next.
\* a is the variant's state, ch what getchar() returns if it reads.
AltDispatch(a, ch) ==
    LET c == code[a.ip]
        v == a.tape[a.pos]
        next == [a EXCEPT !.ip = a.ip + 1, !.landed = FALSE]
    IN  CASE c = "+" -> [next EXCEPT !.tape[a.pos] = IncCell(v)]
          [] c = "-" -> [next EXCEPT !.tape[a.pos] = DecCell(v)]
          [] c = ">" -> [next EXCEPT !.pos = MoveRight(a.pos, len)]
          [] c = "<" -> [next EXCEPT !.pos = MoveLeft(a.pos, len)]
          [] c = "." -> [next EXCEPT !.out = Append(a.out, v)]
          [] c = "," -> [next EXCEPT !.tape[a.pos] = Stored(ch),
                                     !.nread = IF ch = EOF THEN a.nread
                                               ELSE a.nread + 1]
          [] c = "[" -> IF TakesOpen(v)
                        THEN [a EXCEPT !.ip = jumps[a.ip], !.landed = TRUE,
                                       !.jumped = TRUE]
                        ELSE next
          [] c = "]" -> IF TakesClose(v)
                        THEN [a EXCEPT !.ip = jumps[a.ip], !.landed = TRUE,
                                       !.jumped = TRUE]
                        ELSE next
          [] OTHER   -> next

\* The variant's state when exec enters its loop.
AltInit == [ip |-> 0, tape |-> tape, pos |-> pos, out |-> out, nread |-> 0,
            landed |-> FALSE, jumped |-> FALSE]

\* The variant and the program are at the same point of the same run.
InSync ==
    /\ alt.ip = ip
    /\ alt.tape = tape
    /\ alt.pos = pos
    /\ alt.out = out
    /\ alt.nread = Len(consumed)

\* While the program dispatches one instruction the variant dispatches the
\* same one and, when it has landed on a bracket, that bracket too.  Once the
\* two differ the variant is left where the difference appeared.
AltFollow(ch) ==
    IF ~InSync THEN alt
    ELSE LET b == AltDispatch(alt, ch)
         IN  IF b.landed /\ b.ip < code_len THEN AltDispatch(b, ch) ELSE b

\* ------------------------------------------------------------------- Init
\* main after read_file_to_buffer and tape_init, entering exec/build_jumps.
InitOf(progs) ==
    /\ code \in progs
    /\ code_len = Cardinality(DOMAIN code)
    /\ len = TapeLen(code_len)
    /\ tape = ZeroTape(code_len)
    /\ pos = 0
    /\ jumps = [k \in 0..(code_len - 1) |-> 0]
    /\ stack = <<>>
    /\ sp = 0
    /\ i = 0
    /\ ret = <<>>
    /\ ip = 0
    /\ consumed = <<>>
    /\ eof = FALSE
    /\ obuf = <<>>
    /\ out = <<>>
    /\ stderr = <<>>
    /\ exit_code = <<>>
    /\ pc = "build"
    /\ trail = <<>>
    /\ alt = [ip |-> 0, tape |-> ZeroTape(code_len), pos |-> 0, out |-> <<>>,
              nread |-> 0, landed |-> FALSE, jumped |-> FALSE]

Init == InitOf(Programs(MaxLen))

\* ------------------------------------------------------------ build_jumps
execVars == <<tape, pos, len, ip, consumed, eof, obuf, out, trail, alt>>

\* stack[sp++] = i
Push(s, n, v) == [k \in 0..n |-> IF k = n THEN v ELSE s[k]]

\* The stack after --sp.
Pop(s, n) == [k \in 0..(n - 2) |-> s[k]]

\* The oldest entry instead of the newest.
TopOldest(s, n) == s[0]

\* size_t open_idx = stack[--sp]
Top(s, n) == s[n - 1]

\* A pairing whose ']' entry is one past its '['.
PairedPastOpen(j, o, c) == [j EXCEPT ![o] = c, ![c] = o + 1]

\* A pairing recorded at the '[' only.
PairedOneWay(j, o, c) == [j EXCEPT ![o] = c]

\* The table after pairing '[' at o with ']' at c.
Paired(j, o, c) == [j EXCEPT ![o] = c, ![c] = o]

\* for-loop body, c == '['
BuildOpen ==
    /\ pc = "build" /\ i < code_len /\ code[i] = "["
    /\ stack' = Push(stack, sp, i)
    /\ sp' = sp + 1
    /\ i' = i + 1
    /\ UNCHANGED <<code, code_len, jumps, ret, stderr, exit_code, pc>>
    /\ UNCHANGED execVars

\* for-loop body, c == ']' with a '[' on the stack
BuildClose ==
    /\ pc = "build" /\ i < code_len /\ code[i] = "]" /\ sp # 0
    /\ jumps' = Paired(jumps, Top(stack, sp), i)
    /\ stack' = Pop(stack, sp)
    /\ sp' = sp - 1
    /\ i' = i + 1
    /\ UNCHANGED <<code, code_len, ret, stderr, exit_code, pc>>
    /\ UNCHANGED execVars

\* The same, printing the position counted from 1.
BuildUnmatchedCloseFromOne ==
    /\ pc = "build" /\ i < code_len /\ code[i] = "]" /\ sp = 0
    /\ stderr' = Append(stderr, <<"Unmatched ']' at", i + 1>>)
    /\ ret' = <<-1>>
    /\ pc' = "built"
    /\ UNCHANGED <<code, code_len, jumps, stack, sp, i, exit_code>>
    /\ UNCHANGED execVars

\* for-loop body, c == ']' with an empty stack: report i, free, return -1.
BuildUnmatchedClose ==
    /\ pc = "build" /\ i < code_len /\ code[i] = "]" /\ sp = 0
    /\ stderr' = Append(stderr, <<"Unmatched ']' at", i>>)
    /\ ret' = <<-1>>
    /\ pc' = "built"
    /\ UNCHANGED <<code, code_len, jumps, stack, sp, i, exit_code>>
    /\ UNCHANGED execVars

\* for-loop body, any other character
BuildSkip ==
    /\ pc = "build" /\ i < code_len /\ code[i] \notin {"[", "]"}
    /\ i' = i + 1
    /\ UNCHANGED <<code, code_len, jumps, stack, sp, ret, stderr, exit_code, pc>>
    /\ UNCHANGED execVars

\* The same, printing the bottom of the stack.
BuildUnmatchedOpenBottom ==
    /\ pc = "build" /\ i = code_len /\ sp # 0
    /\ stderr' = Append(stderr, <<"Unmatched '[' at", stack[0]>>)
    /\ ret' = <<-1>>
    /\ pc' = "built"
    /\ UNCHANGED <<code, code_len, jumps, stack, sp, i, exit_code>>
    /\ UNCHANGED execVars

\* after the loop, sp != 0: report stack[sp-1], free, return -1.
BuildUnmatchedOpen ==
    /\ pc = "build" /\ i = code_len /\ sp # 0
    /\ stderr' = Append(stderr, <<"Unmatched '[' at", Top(stack, sp)>>)
    /\ ret' = <<-1>>
    /\ pc' = "built"
    /\ UNCHANGED <<code, code_len, jumps, stack, sp, i, exit_code>>
    /\ UNCHANGED execVars

\* after the loop, sp == 0: free(stack), *out_jumps = jumps, return 0.
BuildReturn ==
    /\ pc = "build" /\ i = code_len /\ sp = 0
    /\ ret' = <<0>>
    /\ pc' = "built"
    /\ UNCHANGED <<code, code_len, jumps, stack, sp, i, stderr, exit_code>>
    /\ UNCHANGED execVars

\* ------------------------------------------------------------------- exec
buildVars == <<code, code_len, jumps, stack, sp, i, ret, stderr, exit_code, pc>>

\* The same, without the return: the message is printed and the loop runs.
ExecAbortNoReturn ==
    /\ pc = "built" /\ ret # <<0>>
    /\ stderr' = Append(stderr, <<"Bracket matching failed. Aborting.">>)
    /\ pc' = "exec"
    /\ UNCHANGED <<code, code_len, jumps, stack, sp, i, ret, exit_code>>
    /\ UNCHANGED execVars

\* build_jumps(...) != 0: print the message and return.
ExecAbort ==
    /\ pc = "built" /\ ret # <<0>>
    /\ stderr' = Append(stderr, <<"Bracket matching failed. Aborting.">>)
    /\ pc' = "aborted"
    /\ UNCHANGED <<code, code_len, jumps, stack, sp, i, ret, exit_code>>
    /\ UNCHANGED execVars

\* build_jumps(...) == 0: enter the dispatch loop with ip = 0.
ExecLoop ==
    /\ pc = "built" /\ ret = <<0>>
    /\ pc' = "exec"
    /\ ip' = 0
    /\ alt' = AltInit
    /\ UNCHANGED <<code, code_len, jumps, stack, sp, i, ret, stderr, exit_code>>
    /\ UNCHANGED <<tape, pos, len, consumed, eof, obuf, out, trail>>

\* The loop is at ip < code_len with code[ip] == c.
Dispatching(c) == pc = "exec" /\ ip < code_len /\ code[ip] = c

\* What the history records of the dispatch about to happen.
Entry == [at |-> ip, pos |-> pos, cell |-> tape[pos]]

\* The history after this dispatch.
Logged == IF trail = <<>> THEN <<Entry>> ELSE <<Entry, trail[1]>>

\* A loop without its ++ip.
AdvanceStays(target) == target

\* The instruction pointer after the break and the loop's ++ip, target being
\* the value the case left in ip.
Advance(target) == target + 1

\* Shared tail of every dispatch that does not read: ++ip, the history and
\* the variant's matching dispatch.
Step(target) ==
    /\ ip' = Advance(target)
    /\ trail' = Logged
    /\ alt' = AltFollow(EOF)

\* case '+'
Inc ==
    /\ Dispatching("+")
    /\ tape' = [tape EXCEPT ![pos] = IncCell(tape[pos])]
    /\ Step(ip)
    /\ UNCHANGED <<pos, len, consumed, eof, obuf, out>>
    /\ UNCHANGED buildVars

\* case '-'
Dec ==
    /\ Dispatching("-")
    /\ tape' = [tape EXCEPT ![pos] = DecCell(tape[pos])]
    /\ Step(ip)
    /\ UNCHANGED <<pos, len, consumed, eof, obuf, out>>
    /\ UNCHANGED buildVars

\* case '>'
Right ==
    /\ Dispatching(">")
    /\ pos' = MoveRight(pos, len)
    /\ Step(ip)
    /\ UNCHANGED <<tape, len, consumed, eof, obuf, out>>
    /\ UNCHANGED buildVars

\* A case '<' without its break: it falls through to case '.' and writes
\* the cell it moved to.
LeftFallsThrough ==
    /\ Dispatching("<")
    /\ Len(out) < MaxOut
    /\ pos' = MoveLeft(pos, len)
    /\ out' = out \o obuf \o <<tape[pos']>>
    /\ obuf' = <<>>
    /\ Step(ip)
    /\ UNCHANGED <<tape, len, consumed, eof>>
    /\ UNCHANGED buildVars

\* case '<'
Left ==
    /\ Dispatching("<")
    /\ pos' = MoveLeft(pos, len)
    /\ Step(ip)
    /\ UNCHANGED <<tape, len, consumed, eof, obuf, out>>
    /\ UNCHANGED buildVars

\* putchar then fflush: the byte and whatever was pending become visible.
Flushed(visible, pending, v) == visible \o pending \o <<v>>

\* case '.', explored while fewer than n bytes are visible
OutUpTo(n) ==
    /\ Dispatching(".")
    /\ Len(out) < n
    /\ out' = Flushed(out, obuf, tape[pos])
    /\ obuf' = <<>>
    /\ Step(ip)
    /\ UNCHANGED <<tape, pos, len, consumed, eof>>
    /\ UNCHANGED buildVars

\* putchar without the fflush: the byte waits in the buffer.
OutUnflushed ==
    /\ Dispatching(".")
    /\ Len(out) + Len(obuf) < MaxOut
    /\ obuf' = Append(obuf, tape[pos])
    /\ Step(ip)
    /\ UNCHANGED <<tape, pos, len, consumed, eof, out>>
    /\ UNCHANGED buildVars

\* case '.' in Spec and SpecBytes
Out == OutUpTo(MaxOut)

\* case '.' in SpecFair: no program without a loop writes more than MaxLen
\* bytes, so none of them is cut.
OutLong == OutUpTo(MaxLen)

\* What getchar() may return: EOF once the stream has ended (or holds no
\* more than MaxIn bytes), otherwise EOF or any byte of bytes.
Readable(bytes) ==
    IF eof \/ Len(consumed) >= MaxIn THEN {EOF} ELSE bytes \cup {EOF}

\* case ',' on a stream over bytes
ReadFrom(bytes) ==
    /\ Dispatching(",")
    /\ \E ch \in Readable(bytes) :
          /\ tape' = [tape EXCEPT ![pos] = Stored(ch)]
          /\ consumed' = IF ch = EOF THEN consumed ELSE Append(consumed, ch)
          /\ eof' = (ch = EOF)
          /\ ip' = Advance(ip)
          /\ trail' = Logged
          /\ alt' = AltFollow(ch)
    /\ UNCHANGED <<pos, len, obuf, out>>
    /\ UNCHANGED buildVars

\* case ',' in Spec
In == ReadFrom(InputBytes)

\* case ',' in SpecBytes
InAny == ReadFrom(Byte)

\* case '['
LoopOpen ==
    /\ Dispatching("[")
    /\ Step(IF TakesOpen(tape[pos]) THEN jumps[ip] ELSE ip)
    /\ UNCHANGED <<tape, pos, len, consumed, eof, obuf, out>>
    /\ UNCHANGED buildVars

\* A ']' whose taken jump is not followed by ++ip.
LoopCloseLands ==
    /\ Dispatching("]")
    /\ ip' = IF TakesClose(tape[pos]) THEN jumps[ip] ELSE Advance(ip)
    /\ trail' = Logged
    /\ alt' = AltFollow(EOF)
    /\ UNCHANGED <<tape, pos, len, consumed, eof, obuf, out>>
    /\ UNCHANGED buildVars

\* case ']'
LoopClose ==
    /\ Dispatching("]")
    /\ Step(IF TakesClose(tape[pos]) THEN jumps[ip] ELSE ip)
    /\ UNCHANGED <<tape, pos, len, consumed, eof, obuf, out>>
    /\ UNCHANGED buildVars

\* default
Other ==
    /\ Dispatching("x")
    /\ Step(ip)
    /\ UNCHANGED <<tape, pos, len, consumed, eof, obuf, out>>
    /\ UNCHANGED buildVars

\* ip == code_len: the loop ends, free(jumps), exec returns.
ExecReturn ==
    /\ pc = "exec" /\ ip = code_len
    /\ pc' = "done"
    /\ UNCHANGED <<code, code_len, jumps, stack, sp, i, ret, stderr, exit_code>>
    /\ UNCHANGED execVars

\* ------------------------------------------------------------------- main
\* tape_free: the cells are gone, len = pos = 0.
Freed == [k \in {} |-> 0]

\* After exec: tape_free, free(code), return 0; stdio flushes at exit.
MainReturn ==
    /\ pc \in {"done", "aborted"}
    /\ tape' = Freed
    /\ len' = 0
    /\ pos' = 0
    /\ exit_code' = <<0>>
    /\ out' = out \o obuf
    /\ obuf' = <<>>
    /\ pc' = "exit"
    /\ UNCHANGED <<code, code_len, jumps, stack, sp, i, ret, stderr>>
    /\ UNCHANGED <<ip, consumed, eof, trail, alt>>

Next ==
    \/ BuildOpen
    \/ BuildClose
    \/ BuildUnmatchedClose
    \/ BuildSkip
    \/ BuildUnmatchedOpen
    \/ BuildReturn
    \/ ExecAbort
    \/ ExecLoop
    \/ Inc
    \/ Dec
    \/ Right
    \/ Left
    \/ Out
    \/ In
    \/ LoopOpen
    \/ LoopClose
    \/ Other
    \/ ExecReturn
    \/ MainReturn

Spec == Init /\ [][Next]_vars

\* Programs that read once, first of all: the cell then holds any byte.
ReadFirst(n) ==
    {p \in Programs(n) :
        /\ 0 \in DOMAIN p
        /\ p[0] = ","
        /\ \A k \in DOMAIN p : k > 0 => p[k] # ","}

InitBytes == InitOf(ReadFirst(MaxByteLen))

NextBytes ==
    \/ BuildOpen
    \/ BuildClose
    \/ BuildUnmatchedClose
    \/ BuildSkip
    \/ BuildUnmatchedOpen
    \/ BuildReturn
    \/ ExecAbort
    \/ ExecLoop
    \/ Inc
    \/ Dec
    \/ Right
    \/ Left
    \/ Out
    \/ InAny
    \/ LoopOpen
    \/ LoopClose
    \/ Other
    \/ ExecReturn
    \/ MainReturn

SpecBytes == InitBytes /\ [][NextBytes]_vars

\* The process is sequential and never waits except in getchar(), which
\* returns: whenever a step is possible one is taken.
SpecBytesFair == SpecBytes /\ WF_vars(NextBytes)

\* The classic Hello World program, character by character.
HelloText ==
    <<
       "+", "+", "+", "+", "+", "+", "+", "+", "[", ">", "+", "+",
       "+", "+", "[", ">", "+", "+", ">", "+", "+", "+", ">", "+",
       "+", "+", ">", "+", "<", "<", "<", "<", "-", "]", ">", "+",
       ">", "+", ">", "-", ">", ">", "+", "[", "<", "]", "<", "-",
       "]", ">", ">", ".", ">", "-", "-", "-", ".", "+", "+", "+",
       "+", "+", "+", "+", ".", ".", "+", "+", "+", ".", ">", ">",
       ".", "<", "-", ".", "<", ".", "+", "+", "+", ".", "-", "-",
       "-", "-", "-", "-", ".", "-", "-", "-", "-", "-", "-", "-",
       "-", ".", ">", ">", "+", ".", ">", "+", "+", "." >>

\* The text s as main holds it: s[1] at index 0.
Text(s) == [k \in 0..(Len(s) - 1) |-> s[k + 1]]

HelloWorld == Text(HelloText)

\* Its first 70 characters, ending at "+++.".
HelloPrefix == Text(SubSeq(HelloText, 1, 70))

InitHello == InitOf({HelloWorld, HelloPrefix})

\* case '.' in SpecHello: never cut, the runs write fewer bytes than the
\* text has characters.
OutHello == OutUpTo(Len(HelloText))

\* The steps of the two programs: they hold no ',' and no other character,
\* and their brackets match, so the remaining cases never apply.
NextHello ==
    \/ BuildOpen
    \/ BuildClose
    \/ BuildSkip
    \/ BuildReturn
    \/ ExecLoop
    \/ Inc
    \/ Dec
    \/ Right
    \/ Left
    \/ OutHello
    \/ LoopOpen
    \/ LoopClose
    \/ ExecReturn
    \/ MainReturn

SpecHello == InitHello /\ [][NextHello]_vars /\ WF_vars(NextHello)

NextFair ==
    \/ BuildOpen
    \/ BuildClose
    \/ BuildUnmatchedClose
    \/ BuildSkip
    \/ BuildUnmatchedOpen
    \/ BuildReturn
    \/ ExecAbort
    \/ ExecLoop
    \/ Inc
    \/ Dec
    \/ Right
    \/ Left
    \/ OutLong
    \/ In
    \/ LoopOpen
    \/ LoopClose
    \/ Other
    \/ ExecReturn
    \/ MainReturn

\* Spec with every program's steps taken while one is possible.
SpecFair == Init /\ [][NextFair]_vars /\ WF_vars(NextFair)

\* ----------------------------------------------------------- bracket notions
\* Stated on the program text alone, by counting, not by the scan's stack.
Idx == 0..(code_len - 1)

Opens(a, b) == Cardinality({k \in a..b : code[k] = "["})

Closes(a, b) == Cardinality({k \in a..b : code[k] = "]"})

\* code[a..b] is balanced: no prefix closes more than it opens, and the
\* whole closes what it opens.
BalancedSeg(a, b) ==
    /\ Opens(a, b) = Closes(a, b)
    /\ \A k \in a..b : Opens(a, k) >= Closes(a, k)

Balanced == BalancedSeg(0, code_len - 1)

\* The ']' that closes the shortest balanced segment starting at the '[' at o.
MatchOf(o) ==
    CHOOSE j \in (o + 1)..(code_len - 1) :
        /\ BalancedSeg(o, j)
        /\ \A m \in (o + 1)..(j - 1) : ~BalancedSeg(o, m)

\* The '[' at o is closed by a ']' before position k.
ClosedBefore(o, k) == \E j \in (o + 1)..(k - 1) : BalancedSeg(o, j)

\* A ']' at k with no unmatched '[' before it.
UnmatchedCloseAt(k) ==
    /\ code[k] = "]"
    /\ \A o \in 0..(k - 1) : code[o] = "[" => ClosedBefore(o, k)

\* A '[' at o that is never closed.
NeverClosedAt(o) == code[o] = "[" /\ ~ClosedBefore(o, code_len)

\* build_jumps has returned.
Built == ret # <<>>

\* The dispatch loop is running or has ended, and the tape still exists.
Running == pc \in {"exec", "done"}

\* The last two dispatches were the instructions a then b, next to each other.
JustRan(a, b) ==
    /\ Running
    /\ Len(trail) = 2
    /\ trail[1].at = trail[2].at + 1
    /\ code[trail[2].at] = a
    /\ code[trail[1].at] = b

\* ---------------------------------------------------------------- claims
\* C1: for every program whose brackets are balanced, build_jumps returns 0,
\* and in the table it returns every '[' at i has jumps[i] = j with ']' at j,
\* i < j and jumps[j] = i, so jumps[jumps[k]] = k for every bracket index k.
SymmetricPairs ==
    /\ Built /\ Balanced => ret = <<0>>
    /\ ret = <<0>> =>
          /\ \A o \in Idx : code[o] = "[" =>
                /\ jumps[o] \in Idx
                /\ code[jumps[o]] = "]"
                /\ o < jumps[o]
                /\ jumps[jumps[o]] = o
          /\ \A k \in Idx : code[k] \in {"[", "]"} =>
                jumps[k] \in Idx /\ jumps[jumps[k]] = k

\* A balanced program with one loop inside another has been paired.
SymmetricPairsSeen ==
    /\ pc = "exec" /\ code_len = 4
    /\ code[0] = "[" /\ code[1] = "[" /\ jumps[0] = 3 /\ jumps[3] = 0

\* C2: in a table returned with 0 the pairs are properly nested: two pairs
\* are disjoint or one is inside the other, and each '[' is paired with the
\* ']' closing the shortest balanced segment that starts at it.
ProperlyNested ==
    ret = <<0>> =>
        /\ \A o1, o2 \in Idx :
              code[o1] = "[" /\ code[o2] = "[" /\ o1 < o2 =>
                  jumps[o1] < o2 \/ jumps[o2] < jumps[o1]
        /\ \A o \in Idx : code[o] = "[" => jumps[o] = MatchOf(o)

\* Both shapes have been built: a pair inside a pair, or two pairs in a row.
ProperlyNestedSeen ==
    /\ ret = <<0>> /\ code_len = 4
    /\ code[0] = "[" /\ code[2] = "[" /\ jumps[0] = 1 /\ jumps[2] = 3

\* C3 as written: for every ']' at k with no unmatched '[' before it,
\* construction fails and the message names k.
EveryUnmatchedCloseReported ==
    Built =>
        \A k \in Idx : UnmatchedCloseAt(k) =>
            /\ ret = <<-1>>
            /\ stderr[1] = <<"Unmatched ']' at", k>>

\* C3: when some ']' has no unmatched '[' before it, construction fails and
\* the message names the first such ']'; the program "]" fails at 0.
FirstUnmatchedCloseReported ==
    Built =>
        \A k \in Idx :
            UnmatchedCloseAt(k) /\ (\A m \in 0..(k - 1) : ~UnmatchedCloseAt(m)) =>
                /\ ret = <<-1>>
                /\ stderr[1] = <<"Unmatched ']' at", k>>

\* A ']' after a closed loop has been reported at its own index.
UnmatchedCloseSeen ==
    /\ pc = "aborted" /\ code_len = 4
    /\ code[0] = "[" /\ code[1] = "]" /\ code[2] = "]" /\ code[3] = "]"
    /\ stderr[1] = <<"Unmatched ']' at", 2>>

\* C4 as written: whenever some '[' is never closed, construction fails with
\* the unmatched-'[' message naming the last such '['.
EveryUnmatchedOpenReported ==
    Built =>
        \A o \in Idx :
            NeverClosedAt(o) /\ (\A m \in Idx : m > o => ~NeverClosedAt(m)) =>
                /\ ret = <<-1>>
                /\ stderr[1] = <<"Unmatched '[' at", o>>

\* C4: whenever some '[' is never closed and every ']' has an unmatched '['
\* before it, construction fails with the unmatched-'[' message naming the
\* last (innermost) '[' that is never closed; the program "[" fails at 0.
InnermostUnmatchedOpenReported ==
    Built /\ (\A k \in Idx : ~UnmatchedCloseAt(k)) =>
        \A o \in Idx :
            NeverClosedAt(o) /\ (\A m \in Idx : m > o => ~NeverClosedAt(m)) =>
                /\ ret = <<-1>>
                /\ stderr[1] = <<"Unmatched '[' at", o>>

\* Two '[' are left open and the inner one has been reported.
UnmatchedOpenSeen ==
    /\ pc = "aborted" /\ code_len = 4
    /\ code[0] = "[" /\ code[1] = "[" /\ code[2] = "[" /\ code[3] = "]"
    /\ stderr[1] = <<"Unmatched '[' at", 1>>

\* C5: when construction fails nothing is dispatched: no output, no input
\* consumed, and the tape (while it exists) all zero with the cursor at 0.
NothingRunsAfterFailure ==
    ret = <<-1>> =>
        /\ out = <<>> /\ obuf = <<>>
        /\ consumed = <<>> /\ ~eof
        /\ trail = <<>> /\ ip = 0
        /\ pc # "exit" => tape = ZeroTape(code_len) /\ pos = 0

\* exec has returned on a failure although instructions precede the bracket.
FailureAfterInstructionsSeen ==
    /\ pc = "aborted" /\ code_len = 4
    /\ code[0] = "+" /\ code[1] = "." /\ code[2] = "," /\ code[3] = "]"

\* C6: after every dispatch the instruction pointer is one past the index the
\* case left in it: past the matched bracket after a taken jump ('[' on a
\* zero cell, ']' on a non-zero cell), never on it, and ip + 1 otherwise.
AdvancesPastTarget ==
    Running /\ trail # <<>> =>
        LET e == trail[1]
            c == code[e.at]
            taken == (c = "[" /\ e.cell = 0) \/ (c = "]" /\ e.cell # 0)
        IN  /\ ip = (IF taken THEN jumps[e.at] ELSE e.at) + 1
            /\ taken => ip # jumps[e.at]
            /\ ip <= code_len

\* A ']' on a non-zero cell has just jumped back, to one past its '['.
JumpBackSeen ==
    /\ pc = "exec" /\ trail # <<>>
    /\ code[trail[1].at] = "]" /\ trail[1].cell # 0
    /\ ip = jumps[trail[1].at] + 1 /\ ip < trail[1].at

\* C7 as written, read on one run: a run that has taken a jump ends in a
\* different output, tape, cursor or input position under the policy that
\* lands on the matched bracket, or ends under one policy only.
LandingChangesTheRun == pc = "done" /\ alt.jumped => ~InSync

\* C7: landing on the matched bracket instead of one past it changes nothing
\* observable: after every dispatch both policies are at the same instruction
\* with the same output, tape, cursor and input consumed, so they also end
\* together.
LandingChangesNothing == Running => InSync

\* A run with taken jumps, output and input has ended under both policies.
BothPoliciesEndedSeen ==
    /\ pc = "done" /\ alt.jumped /\ InSync
    /\ out # <<>> /\ consumed # <<>>
    /\ \E k \in Idx : code[k] = "]" /\ k < code_len - 1

\* C8: while the tape exists the cursor is inside it, 0 <= pos < len with
\* len >= 1; '>' on the last cell gives 0 and otherwise pos + 1, '<' on cell
\* 0 gives len - 1 and otherwise pos - 1.
CursorInsideTape ==
    pc # "exit" =>
        /\ len >= 1
        /\ DOMAIN tape = 0..(len - 1)
        /\ pos \in 0..(len - 1)
        /\ Running /\ trail # <<>> =>
              LET e == trail[1]
              IN  /\ code[e.at] = ">" =>
                        pos = IF e.pos = len - 1 THEN 0 ELSE e.pos + 1
                  /\ code[e.at] = "<" =>
                        pos = IF e.pos = 0 THEN len - 1 ELSE e.pos - 1
                  /\ code[e.at] \notin {">", "<"} => pos = e.pos

\* '>' on the last cell of a tape of several cells has wrapped to cell 0.
CursorWrappedSeen ==
    /\ pc = "exec" /\ len >= 2 /\ trail # <<>>
    /\ code[trail[1].at] = ">" /\ trail[1].pos = len - 1 /\ pos = 0

\* C9: "+-" and "-+" dispatched with nothing in between leave the cell at
\* the cursor as it was, for every value it held, and every cell is a byte.
IncDecRestores ==
    /\ Running => \A k \in DOMAIN tape : tape[k] \in Byte
    /\ JustRan("+", "-") \/ JustRan("-", "+") =>
          /\ pos = trail[2].pos
          /\ tape[pos] = trail[2].cell

\* "+-" has run on a cell holding 255.
IncDecAt255Seen ==
    JustRan("+", "-") /\ trail[2].cell = 255 /\ tape[pos] = 255

\* C10: '>' dispatched with the cursor on the last cell and then '.' right
\* after it writes the value of cell 0.
WrapThenOutput ==
    JustRan(">", ".") /\ trail[2].pos = len - 1 =>
        /\ out # <<>>
        /\ out[Len(out)] = tape[0]

\* That has happened on a tape of several cells with a non-zero cell 0.
WrapThenOutputSeen ==
    /\ JustRan(">", ".") /\ trail[2].pos = len - 1
    /\ len >= 2 /\ tape[0] # 0 /\ out = <<tape[0]>>

\* The program ",."
Echo == [k \in 0..1 |-> IF k = 0 THEN "," ELSE "."]

\* C11: the program ",." on a stream whose first byte is b ends, having
\* written exactly the byte b and consumed exactly one byte, for every b.
EchoesOneByte ==
    code = Echo =>
        /\ <>(pc = "exit")
        /\ [](pc \in {"done", "exit"} /\ consumed # <<>> =>
                /\ Len(consumed) = 1
                /\ out = <<consumed[1]>>
                /\ obuf = <<>>)

\* ",." has ended after echoing the byte 65.
EchoOf65Seen ==
    code = Echo /\ pc = "exit" /\ consumed = <<65>> /\ out = <<65>>

\* C12: ',' on an exhausted stream sets the cell at the cursor to 0 and
\* changes nothing else, the run goes on with the next instruction, and the
\* stream stays exhausted; with a byte available the cell becomes that byte
\* and the byte is consumed.
ReadStoresByteOrZero ==
    [][Dispatching(",") =>
          /\ pc' = "exec" /\ ip' = ip + 1
          /\ pos' = pos /\ out' = out /\ obuf' = obuf
          /\ \A k \in DOMAIN tape : k # pos => tape'[k] = tape[k]
          /\ eof => eof'
          /\ eof' => tape'[pos] = 0 /\ consumed' = consumed
          /\ ~eof' =>
                /\ Len(consumed') = Len(consumed) + 1
                /\ \A k \in 1..Len(consumed) : consumed'[k] = consumed[k]
                /\ tape'[pos] = consumed'[Len(consumed')]
    ]_vars

\* A non-zero cell has been cleared by a second read at the end of the
\* stream, and the run has gone on.
ReadAtEndSeen ==
    /\ JustRan(",", ",") /\ eof
    /\ trail[1].cell # 0 /\ tape[pos] = 0
    /\ pc = "exec" /\ ip < code_len

\* C13: for the empty program the tape has length 1, the jump table is
\* empty and construction returns 0, nothing is dispatched, written or read,
\* and the run ends normally.
EmptyProgramRuns ==
    code_len = 0 =>
        /\ <>(pc = "exit" /\ exit_code = <<0>> /\ stderr = <<>>)
        /\ [](/\ pc # "exit" => len = 1 /\ tape = [k \in {0} |-> 0] /\ pos = 0
              /\ jumps = <<>>
              /\ Built => ret = <<0>>
              /\ pc # "aborted"
              /\ trail = <<>> /\ ip = 0
              /\ out = <<>> /\ obuf = <<>>
              /\ consumed = <<>> /\ ~eof)

\* The empty program has ended.
EmptyProgramEndedSeen ==
    code_len = 0 /\ pc = "exit" /\ ret = <<0>> /\ exit_code = <<0>>

\* C14: the byte of every '.' is visible before the next dispatch: '.'
\* appends its byte to the visible output, no other instruction touches the
\* output, and no byte is ever pending between dispatches, so at every ','
\* the bytes of all earlier '.' are visible in dispatch order.
OutputFlushedAtOnce ==
    [][pc = "exec" =>
          /\ obuf = <<>> /\ obuf' = <<>>
          /\ Dispatching(".") => out' = Append(out, tape[pos])
          /\ ~Dispatching(".") => out' = out
    ]_vars

\* Two different bytes are visible, in order, as a ',' is about to read.
OutputVisibleBeforeReadSeen ==
    /\ pc = "exec" /\ ip < code_len /\ code[ip] = ","
    /\ Len(out) = 2 /\ out[1] # out[2] /\ obuf = <<>>
    /\ JustRan("+", ".") /\ out[2] = tape[pos]

\* "Hello World!" and a newline, as bytes.
HelloBytes == <<72, 101, 108, 108, 111, 32, 87, 111, 114, 108, 100, 33, 10>>

\* What each of the two programs is to write.
Greeting == IF code = HelloWorld THEN HelloBytes ELSE SubSeq(HelloBytes, 1, 5)

\* C15: the Hello World program, with no input and a tape as long as the
\* program, ends having written exactly "Hello World!" and a newline; its
\* prefix ending at "+++." ends having written exactly "Hello".
HelloWorldPrinted == <>[](pc = "exit" /\ out = Greeting /\ consumed = <<>>)

\* The full program has ended with the whole greeting written.
HelloWorldSeen ==
    code = HelloWorld /\ pc = "exit" /\ out = HelloBytes /\ exit_code = <<0>>

\* C16: a run whose jump-table construction fails ends with an exit code
\* other than the 0 of a run that ends normally.
ExitCodeTellsFailure ==
    pc = "exit" /\ ret = <<-1>> => exit_code # <<0>>

\* The bracket opposite to b.
Opposite(b) == IF b = "[" THEN "]" ELSE "["

\* C17: while the loop runs, ip never exceeds N and the run stops exactly
\* when ip equals N; a dispatch of anything but a bracket goes to ip + 1
\* without the table; at a bracket the entry jumps[ip] is an index in
\* 0..N-1 holding the opposite bracket, and ip goes to ip + 1 or to one
\* past that entry.
JumpTableReadInRange ==
    [][pc = "exec" =>
          /\ ip <= code_len
          /\ (ip = code_len) <=> (pc' = "done")
          /\ ip < code_len =>
                /\ pc' = "exec" /\ ip' <= code_len
                /\ code[ip] \notin {"[", "]"} => ip' = ip + 1
                /\ code[ip] \in {"[", "]"} =>
                      /\ jumps[ip] \in Idx
                      /\ code[jumps[ip]] = Opposite(code[ip])
                      /\ ip' \in {ip + 1, jumps[ip] + 1}
                      /\ ip' # ip + 1 =>
                            (code[ip] = "[") = (tape[pos] = 0)
    ]_vars

\* A '[' on a zero cell has read the index of the last instruction from the
\* table, and the run has stopped with ip = N.
JumpToEndSeen ==
    /\ pc = "done" /\ ip = code_len /\ trail # <<>>
    /\ code[trail[1].at] = "[" /\ trail[1].cell = 0
    /\ jumps[trail[1].at] = code_len - 1
    /\ trail[1].at < code_len - 2

\* The cells away from the cursor keep their values.
OtherCellsKept == \A k \in DOMAIN tape : k # pos => tape'[k] = tape[k]

\* The input stream is where it was.
InputKept == consumed' = consumed /\ eof' = eof

\* The output stream is where it was.
OutputKept == out' = out /\ obuf' = obuf

\* C18: a dispatch changes only what its instruction names, besides the
\* instruction pointer: '+', '-' and ',' only the cell at the cursor (','
\* also takes its byte from the input), '>' and '<' only the cursor, '.'
\* only the output, '[' and ']' only the instruction pointer, and any other
\* character nothing, the instruction pointer going to ip + 1; the program
\* text, the jump table and the tape length never change during the run.
DispatchChangesOnlyItsOwn ==
    [][pc = "exec" /\ ip < code_len =>
          /\ code' = code /\ code_len' = code_len /\ jumps' = jumps
          /\ len' = len /\ DOMAIN tape' = DOMAIN tape
          /\ code[ip] \in {"+", "-"} =>
                /\ OtherCellsKept /\ pos' = pos
                /\ InputKept /\ OutputKept /\ ip' = ip + 1
          /\ code[ip] = "," =>
                /\ OtherCellsKept /\ pos' = pos
                /\ OutputKept /\ ip' = ip + 1
          /\ code[ip] \in {">", "<"} =>
                /\ tape' = tape
                /\ InputKept /\ OutputKept /\ ip' = ip + 1
          /\ code[ip] = "." =>
                /\ tape' = tape /\ pos' = pos
                /\ InputKept /\ ip' = ip + 1
          /\ code[ip] \in {"[", "]"} =>
                /\ tape' = tape /\ pos' = pos
                /\ InputKept /\ OutputKept
          /\ code[ip] = "x" =>
                /\ tape' = tape /\ pos' = pos
                /\ InputKept /\ OutputKept /\ ip' = ip + 1
    ]_vars

\* A character outside the instruction set has been dispatched at index 1
\* of a longer program: the cell a '+' had set, the cursor and both streams
\* are as it found them, and the next instruction is the one at index 2.
NoOpDispatchedSeen ==
    /\ JustRan("+", "x") /\ pc = "exec"
    /\ trail[1].at = 1 /\ ip = 2 /\ ip < code_len
    /\ tape[pos] = 1 /\ trail[1].cell = 1 /\ pos = trail[1].pos
    /\ out = <<>> /\ consumed = <<>>

\* C19: brackets are a while-loop on the cell at the cursor. Right after
\* the dispatch of either bracket of a pair (o, c) the instruction pointer
\* is o + 1 or c + 1; at o + 1 (body entered or repeated) the cell at the
\* cursor is non-zero, at c + 1 (loop skipped or left) it is 0.
WhileLoopOnCell ==
    Running /\ trail # <<>> /\ code[trail[1].at] \in {"[", "]"} =>
        LET k == trail[1].at
            o == IF code[k] = "[" THEN k ELSE jumps[k]
            c == IF code[k] = "[" THEN jumps[k] ELSE k
        IN  /\ o < c /\ code[o] = "[" /\ code[c] = "]"
            /\ ip \in {o + 1, c + 1}
            /\ ip = o + 1 => tape[pos] # 0
            /\ ip = c + 1 => tape[pos] = 0

\* A loop entered on a non-zero cell has been left: its body cleared the
\* cell and the ']' fell through to the instruction after it.
LoopLeftSeen ==
    /\ JustRan("-", "]") /\ pc = "exec"
    /\ ip = trail[1].at + 1
    /\ tape[pos] = 0 /\ trail[2].cell = 1
    /\ jumps[trail[1].at] = trail[2].at - 1

\* The program holds no '[' and no ']'.
BracketFree == \A k \in Idx : code[k] \notin {"[", "]"}

\* The program "+[]".
Spinner == Text(<<"+", "[", "]">>)

\* C20: a program without brackets ends, whatever the input gives, after
\* dispatching each of its positions once in increasing order: the loop
\* starts at 0, every dispatch goes from ip to ip + 1 and the run stops at
\* N. The program "+[]" never ends: from some point on its ']' is
\* dispatched on a non-zero cell for ever.
BracketFreeEnds ==
    /\ BracketFree =>
          <>(pc = "exit" /\ ret = <<0>> /\ ip = code_len /\ exit_code = <<0>>)
    /\ [](BracketFree /\ Running =>
            /\ ip <= code_len
            /\ (trail = <<>>) = (ip = 0)
            /\ trail # <<>> => trail[1].at = ip - 1
            /\ Len(trail) = 2 => trail[2].at = ip - 2)
    /\ [][BracketFree /\ pc = "exec" /\ ip < code_len =>
              pc' = "exec" /\ ip' = ip + 1]_vars
    /\ code = Spinner =>
          /\ [](pc \notin {"done", "exit", "aborted"})
          /\ <>[](Dispatching("]") /\ TakesClose(tape[pos]) /\ ENABLED LoopClose)

\* A program of three instructions without brackets has ended after its
\* third dispatch, its two reads having met a byte and then the end of the
\* input.
BracketFreeEndedSeen ==
    /\ BracketFree /\ code_len = 3 /\ pc = "exit"
    /\ Len(trail) = 2 /\ trail[1].at = 2 /\ trail[2].at = 1
    /\ code[1] = "," /\ code[2] = ","
    /\ Len(consumed) = 1 /\ eof

====
